---- MODULE Spec2Model ----
(***************************************************************************)
(* Model of the dynamic-pricing service for perishable goods:              *)
(*   src/ml-service/main.py                  the serving code              *)
(*   src/ml-service/training/train_model.py  the synthetic label generator *)
(*                                                                         *)
(* Numbers.  Money is counted in cents, demand_score in hundredths, every  *)
(* stage factor in hundredths (0.85 is 85).  A price multiplier is the     *)
(* product of five factors, so it is an exact multiple of 10^-10; it is    *)
(* kept as a pair <<hi, lo>> standing for hi * 10^5 + lo in units of       *)
(* 10^-10 (hi alone is the multiplier in units of 10^-5).  A price is kept *)
(* the same way, in units of 10^-10 cent.  The Python code computes in     *)
(* binary floating point; the model computes the same expressions exactly, *)
(* which agrees with the code except within one rounding error of a        *)
(* comparison or rounding tie.                                             *)
(***************************************************************************)
EXTENDS Integers, Sequences, FiniteSets, TLC

VARIABLES
    model, preprocessor, feature_names, \* main.py:38-40, 0 stands for None
    lpc,        \* position of load_model (main.py:70-105)
    snap,       \* the ProductData of the request being served
    cpc, calc,  \* calculate_rule_based_price applied to snap, and its result
    ppc, outcome, resp, \* predict_price applied to snap: what the
                \* collaborators did, and what its caller got
    products, predictions, outcomes, bpc, total_processed, \* batch_predict
    rpc, seen,  \* per request served while load_model runs: its position
                \* in get_model_info, and the globals as it read them
    tin, tpc, tres \* calculate_target_price: arguments, position, result

vars == <<model, preprocessor, feature_names, lpc, snap, cpc, calc, ppc,
          outcome, resp,
          products, predictions, outcomes, bpc, total_processed, rpc, seen,
          tin, tpc, tres>>

(***************************************************************************)
(* Bounds of the model (largest value of each input that is explored).     *)
(***************************************************************************)
MaxPrice == 1999
MaxDays == 22
MaxStock == 301
MaxSales == 201
MaxBatch == 3
MaxReaders == 2

(***************************************************************************)
(* Exact arithmetic on pairs <<hi, lo>> = hi * Limb + lo.                  *)
(***************************************************************************)
Limb == 100000

One == <<0, 1>>

\* x * f for a small natural f (price_multiplier *= f)
Mul(x, f) ==
    LET t == x[2] * f
    IN  <<x[1] * f + (t \div Limb), t % Limb>>

Le2(x, y) == x[1] < y[1] \/ (x[1] = y[1] /\ x[2] <= y[2])

Max2(x, y) == IF Le2(x, y) THEN y ELSE x

Min2(x, y) == IF Le2(x, y) THEN x ELSE y

\* round(x, 2) of a price x in units of 10^-10 cent, in whole cents
\* (Python rounds the exact value to the nearest cent, a tie to even)
Round2(x) ==
    LET c == x[1] \div Limb
        r == x[1] % Limb
        half == Limb \div 2
    IN  IF r > half \/ (r = half /\ x[2] > 0) THEN c + 1
        ELSE IF r = half /\ x[2] = 0 THEN (IF c % 2 = 0 THEN c ELSE c + 1)
        ELSE c

(***************************************************************************)
(* ProductData (main.py:42-50).                                            *)
(***************************************************************************)
CategoryNames == {"bakery", "dairy", "fruits", "meat", "other", "seafood", "vegetables"}

\* str.lower() on the category strings the model feeds in
Lower(c) ==
    CASE c = "DAIRY" -> "dairy"
      [] c = "SEAFOOD" -> "seafood"
      [] OTHER -> c

ProductData(p, d, s, q, c, h) ==
    [current_price |-> p, days_to_expiry |-> d, stock_level |-> s,
     demand_score |-> q, category |-> c, historical_sales |-> h,
     day_of_week |-> "monday"]

(***************************************************************************)
(* calculate_rule_based_price (main.py:164-266).                           *)
(***************************************************************************)
\* mutant: the expired branch tests "< 0"
ExpiryFactor_StrictZero(d) ==
    IF d < 0 THEN 5
    ELSE IF d <= 1 THEN 25
    ELSE IF d <= 2 THEN 45
    ELSE IF d <= 3 THEN 60
    ELSE IF d <= 5 THEN 75
    ELSE IF d <= 7 THEN 85
    ELSE IF d <= 14 THEN 95
    ELSE IF d <= 21 THEN 100
    ELSE 105

ExpiryFactor(d) ==
    IF d <= 0 THEN 5
    ELSE IF d <= 1 THEN 25
    ELSE IF d <= 2 THEN 45
    ELSE IF d <= 3 THEN 60
    ELSE IF d <= 5 THEN 75
    ELSE IF d <= 7 THEN 85
    ELSE IF d <= 14 THEN 95
    ELSE IF d <= 21 THEN 100
    ELSE 105

DemandFactor(q) ==
    IF q < 10 THEN 75
    ELSE IF q < 30 THEN 85
    ELSE IF q < 50 THEN 95
    ELSE IF q < 70 THEN 100
    ELSE IF q < 80 THEN 108
    ELSE IF q < 90 THEN 115
    ELSE 125

StockFactor(s) ==
    IF s > 300 THEN 80
    ELSE IF s > 200 THEN 90
    ELSE IF s > 100 THEN 96
    ELSE IF s > 50 THEN 100
    ELSE IF s > 20 THEN 108
    ELSE IF s > 10 THEN 115
    ELSE 130

SalesFactor(h) ==
    IF h < 5 THEN 85
    ELSE IF h < 20 THEN 92
    ELSE IF h > 50 THEN 105
    ELSE IF h > 100 THEN 110
    ELSE IF h > 200 THEN 115
    ELSE 100

CategoryFactor(c) ==
    CASE Lower(c) = "meat" -> 105
      [] Lower(c) = "seafood" -> 108
      [] Lower(c) = "dairy" -> 102
      [] Lower(c) = "fruits" -> 98
      [] Lower(c) = "vegetables" -> 96
      [] Lower(c) = "bakery" -> 95
      [] Lower(c) = "other" -> 100
      [] OTHER -> 100

\* price_multiplier after the five stages, before the bounds
StageMultiplier(s) ==
    Mul(Mul(Mul(Mul(Mul(One, ExpiryFactor(s.days_to_expiry)),
                    DemandFactor(s.demand_score)),
                StockFactor(s.stock_level)),
            SalesFactor(s.historical_sales)),
        CategoryFactor(s.category))

MinMultiplier == <<70000, 0>>

MaxMultiplier == <<135000, 0>>

MinPriceShare == <<5000, 0>>

\* mutant: the 0.70 floor skips the last day before expiry
ApplyFloor_SkipLastDay(s, m) ==
    IF s.days_to_expiry > 1 /\ s.demand_score > 50
    THEN Max2(m, MinMultiplier)
    ELSE m

ApplyFloor(s, m) ==
    IF s.days_to_expiry > 0 /\ s.demand_score > 50
    THEN Max2(m, MinMultiplier)
    ELSE m

\* mutant: the cap of the comment at line 255 ("maximum premium at 50%")
ApplyCeiling_Fifty(s, m) ==
    IF s.stock_level > 5 THEN Min2(m, <<150000, 0>>) ELSE m

\* mutant: the ceiling applies to the scarce stock levels instead
ApplyCeiling_Scarce(s, m) ==
    IF s.stock_level <= 5 THEN Min2(m, MaxMultiplier) ELSE m

ApplyCeiling(s, m) ==
    IF s.stock_level > 5 THEN Min2(m, MaxMultiplier) ELSE m

\* price_multiplier after "6. INTELLIGENT PRICE BOUNDS"
BoundedMultiplier(s) == ApplyCeiling(s, ApplyFloor(s, StageMultiplier(s)))

\* mutant: the final max() with the minimum viable price is left out
FinalPrice_NoFloor(s, m) == Mul(m, s.current_price)

\* max(base_price * price_multiplier, current_price * 0.05)
FinalPrice(s, m) ==
    Max2(Mul(m, s.current_price), Mul(MinPriceShare, s.current_price))

calculate_rule_based_price(s) == FinalPrice(s, BoundedMultiplier(s))

(***************************************************************************)
(* The calculator applied to one ProductData.                              *)
(***************************************************************************)
Prices == {1, MaxPrice}

Days == {-1, 0, 1, 2, 3, 5, 7, 14, 21, MaxDays}

Stocks == {0, 5, 6, 11, 21, 51, 101, 201, MaxStock}

Demands == {0, 10, 30, 50, 51, 70, 80, 100}

Sales == {0, 5, 20, 51, 101, MaxSales}

Categories == CategoryNames \cup {"SEAFOOD", "organic"}

Zero == <<0, 0>>

NoCalc == [stages |-> Zero, multiplier |-> Zero, price |-> Zero]

NoResponse ==
    [raised |-> FALSE, status |-> 0, recommended_price |-> 0, confidence |-> 0,
     factors |-> <<>>, method |-> "none"]

\* the collaborators (preprocessor.transform, model.predict) were not called
NotCalled == [kind |-> "not_called", prediction |-> 0]

NoSnapshot == ProductData(1, 0, 0, 0, "other", 0)

NoTarget ==
    [raised |-> FALSE, line |-> 0, price_multiplier |-> Zero, price |-> 0]

NoTargetInput ==
    [original_price |-> 1, days_to_expiry |-> 0, stock_level |-> 0,
     demand_score |-> 0, category |-> "other", historical_sales |-> 0,
     day_of_week |-> "monday"]

GlobalsIdle ==
    /\ model = 0 /\ preprocessor = 0 /\ feature_names = 0 /\ lpc = "idle"

CalcIdle == cpc = "idle" /\ calc = NoCalc

PredictIdle == ppc = "idle" /\ outcome = NotCalled /\ resp = NoResponse

BatchIdle ==
    /\ products = <<>> /\ predictions = <<>> /\ outcomes = <<>>
    /\ bpc = "idle" /\ total_processed = 0

Readers == 1..MaxReaders

ReaderIdle ==
    /\ rpc = [r \in Readers |-> "idle"]
    /\ seen = [r \in Readers |-> <<0, 0, 0>>]

TargetIdle == tin = NoTargetInput /\ tpc = "idle" /\ tres = NoTarget

globalVars == <<model, preprocessor, feature_names, lpc>>

calcVars == <<cpc, calc>>

predictVars == <<ppc, outcome, resp>>

batchVars == <<products, predictions, outcomes, bpc, total_processed>>

readerVars == <<rpc, seen>>

targetVars == <<tin, tpc, tres>>

\* one call of calculate_rule_based_price(snap)
Calculate ==
    /\ cpc = "ready"
    /\ calc' = [stages |-> StageMultiplier(snap),
                multiplier |-> BoundedMultiplier(snap),
                price |-> calculate_rule_based_price(snap)]
    /\ cpc' = "done"
    /\ UNCHANGED <<snap, globalVars, predictVars, batchVars, readerVars, targetVars>>

InitCalc ==
    /\ \E p \in Prices, d \in Days, s \in Stocks, q \in Demands,
          c \in Categories, h \in Sales : snap = ProductData(p, d, s, q, c, h)
    /\ cpc = "ready" /\ calc = NoCalc
    /\ GlobalsIdle /\ PredictIdle /\ BatchIdle /\ ReaderIdle /\ TargetIdle

NextCalc == Calculate

SpecCalc == InitCalc /\ [][NextCalc]_vars

(***************************************************************************)
(* calculate_target_price (train_model.py:81-215), called once per sample  *)
(* by create_synthetic_data (train_model.py:22-79).  np.random.uniform is  *)
(* a choice within its interval; the model draws either end of it.         *)
(***************************************************************************)
TargetExpiryRange(d) ==
    IF d <= 0 THEN <<5, 15>>
    ELSE IF d <= 1 THEN <<20, 40>>
    ELSE IF d <= 2 THEN <<40, 60>>
    ELSE IF d <= 3 THEN <<55, 75>>
    ELSE IF d <= 5 THEN <<75, 90>>
    ELSE IF d <= 7 THEN <<88, 98>>
    ELSE IF d <= 14 THEN <<95, 105>>
    ELSE IF d <= 21 THEN <<98, 110>>
    ELSE <<100, 115>>

TargetDemandRange(q) ==
    IF q < 10 THEN <<70, 85>>
    ELSE IF q < 30 THEN <<80, 95>>
    ELSE IF q < 50 THEN <<90, 100>>
    ELSE IF q < 70 THEN <<95, 105>>
    ELSE IF q < 80 THEN <<102, 112>>
    ELSE IF q < 90 THEN <<108, 120>>
    ELSE <<115, 135>>

TargetStockRange(s) ==
    IF s > 300 THEN <<75, 90>>
    ELSE IF s > 200 THEN <<85, 95>>
    ELSE IF s > 100 THEN <<92, 102>>
    ELSE IF s > 50 THEN <<98, 105>>
    ELSE IF s > 20 THEN <<105, 115>>
    ELSE IF s > 10 THEN <<112, 125>>
    ELSE <<120, 150>>

\* the stage leaves price_multiplier alone when no branch is taken
TargetSalesRange(h) ==
    IF h < 5 THEN <<80, 92>>
    ELSE IF h < 20 THEN <<90, 98>>
    ELSE IF h > 50 THEN <<102, 108>>
    ELSE IF h > 100 THEN <<105, 115>>
    ELSE IF h > 200 THEN <<110, 125>>
    ELSE <<100, 100>>

DrawEnds == {1, 2}

\* price_multiplier at line 182, in units of 10^-8
TargetMultiplier(i, dr) ==
    Mul(Mul(Mul(Mul(One, TargetExpiryRange(i.days_to_expiry)[dr[1]]),
                TargetDemandRange(i.demand_score)[dr[2]]),
            TargetStockRange(i.stock_level)[dr[3]]),
        TargetSalesRange(i.historical_sales)[dr[4]])

\* The local name price is only ever the target of "price *= ..." (lines
\* 185, 187, 199, 203, 205, 213) and of "price = max(price, min_price)"
\* (line 209), which reads it too: it is unbound where it is first read,
\* and the read raises UnboundLocalError.
FirstReadOfPrice(i) ==
    IF i.historical_sales < 20 THEN 185
    ELSE IF i.historical_sales > 100 THEN 187
    ELSE 199

calculate_target_price(i, dr) ==
    [raised |-> TRUE, line |-> FirstReadOfPrice(i),
     price_multiplier |-> TargetMultiplier(i, dr), price |-> 0]

\* category_base_prices, in cents (train_model.py:37-45)
CategoryBasePrices(c) ==
    CASE c = "dairy" -> <<200, 1500>>
      [] c = "meat" -> <<500, 5000>>
      [] c = "vegetables" -> <<100, 800>>
      [] c = "fruits" -> <<100, 1200>>
      [] c = "bakery" -> <<200, 2000>>
      [] c = "seafood" -> <<800, 6000>>
      [] c = "other" -> <<100, 3000>>

DaysOfWeek ==
    {"monday", "tuesday", "wednesday", "thursday", "friday", "saturday", "sunday"}

TargetDays == {-2, 0, 1, 3, 7, 21, 29}

TargetStocks == {0, 11, 51, 499}

TargetDemands == {5, 50, 95}

TargetSales == {4, 19, 20, 50, 51, 100, 101}

\* one sample of create_synthetic_data (lines 47-58)
TargetInput(p, d, s, q, c, h, w) ==
    [original_price |-> p, days_to_expiry |-> d, stock_level |-> s,
     demand_score |-> q, category |-> c, historical_sales |-> h,
     day_of_week |-> w]

\* create_synthetic_data raises as soon as one sample's target price does
create_synthetic_data_raises ==
    \E c \in CategoryNames, d \in TargetDays, s \in TargetStocks,
       q \in TargetDemands, h \in TargetSales, w \in DaysOfWeek,
       dr \in [1..4 -> DrawEnds] :
        calculate_target_price(
            TargetInput(CategoryBasePrices(c)[1], d, s, q, c, h, w), dr).raised

CalculateTarget ==
    /\ tpc = "ready"
    /\ \E dr \in [1..4 -> DrawEnds] : tres' = calculate_target_price(tin, dr)
    /\ tpc' = "done"
    /\ UNCHANGED <<tin, snap, globalVars, calcVars, predictVars, batchVars, readerVars>>

InitTarget ==
    /\ \E c \in CategoryNames, e \in DrawEnds, d \in TargetDays,
          s \in TargetStocks, q \in TargetDemands, h \in TargetSales,
          w \in {"monday", "tuesday", "saturday"} :
            tin = TargetInput(CategoryBasePrices(c)[e], d, s, q, c, h, w)
    /\ tpc = "ready" /\ tres = NoTarget
    /\ snap = NoSnapshot
    /\ GlobalsIdle /\ CalcIdle /\ PredictIdle /\ BatchIdle /\ ReaderIdle

NextTarget == CalculateTarget

SpecTarget == InitTarget /\ [][NextTarget]_vars

(***************************************************************************)
(* load_model and train_model (main.py:70-105, 268-297).  Each assignment  *)
(* to a global is a step of its own.                                       *)
(***************************************************************************)
\* line 80: model = joblib.load(model_path)
LoadModelFile ==
    /\ lpc = "idle"
    /\ model' = 1
    /\ lpc' = "model_set"
    /\ UNCHANGED <<preprocessor, feature_names>>

\* line 81: preprocessor = joblib.load(preprocessor_path)
LoadPreprocessorFile ==
    /\ lpc = "model_set"
    /\ preprocessor' = 1
    /\ lpc' = "preprocessor_set"
    /\ UNCHANGED <<model, feature_names>>

\* lines 83-97: feature_names from its file, or the default list
LoadFeatureNames ==
    /\ lpc = "preprocessor_set"
    /\ feature_names' = 1
    /\ lpc' = "done"
    /\ UNCHANGED <<model, preprocessor>>

\* a joblib.load raises (lines 80, 81, 84): caught at line 103, return False
LoadRaises ==
    /\ lpc \in {"idle", "model_set", "preprocessor_set"}
    /\ lpc' = "failed"
    /\ UNCHANGED <<model, preprocessor, feature_names>>

\* lines 98-101: the files are missing, train_model() is called; it raises
\* when create_synthetic_data does (lines 276, 295-297), and otherwise
\* assigns the three globals (lines 289-291)
LoadTrains ==
    /\ lpc = "idle"
    /\ IF create_synthetic_data_raises
       THEN lpc' = "failed" /\ UNCHANGED <<model, preprocessor, feature_names>>
       ELSE model' = 1 /\ preprocessor' = 1 /\ feature_names' = 1 /\ lpc' = "done"

\* no call of load_model is under way: it has not been called (the handlers
\* called without the startup hook), has returned True, or has returned
\* False; load_model has no await, so on the event loop no handler runs
\* in between its steps
Quiescent == lpc \in {"idle", "done", "failed"}

(***************************************************************************)
(* predict_price (main.py:317-406), preprocess_data (main.py:107-132).     *)
(***************************************************************************)
Response(price, confidence, factors, method) ==
    [raised |-> FALSE, status |-> 0, recommended_price |-> price,
     confidence |-> confidence, factors |-> factors, method |-> method]

\* an exception that leaves the handler: FastAPI answers with its status
Raised(exc) ==
    [raised |-> TRUE, status |-> IF exc = "HTTPException" THEN 400 ELSE 500,
     recommended_price |-> 0, confidence |-> 0, factors |-> <<>>,
     method |-> "none"]

\* a / b rounded to the nearest integer, a tie to even (a >= 0, b > 0)
RoundDiv(a, b) ==
    LET q == a \div b
        r == a % b
    IN  IF 2 * r > b THEN q + 1
        ELSE IF 2 * r = b THEN (IF q % 2 = 0 THEN q ELSE q + 1)
        ELSE q

\* mutant: the no-model path answers as the error fallback does
RuleBasedResponse_AsError(s) ==
    Response(Round2(calculate_rule_based_price(s)), 500,
             <<"error_fallback">>, "rule_based_fallback")

\* lines 321-330
RuleBasedResponse(s) ==
    Response(Round2(calculate_rule_based_price(s)), 600,
             <<"rule_based_fallback">>, "rule_based")

\* lines 396-406
ErrorFallback(s) ==
    Response(Round2(calculate_rule_based_price(s)), 500,
             <<"error_fallback">>, "rule_based_fallback")

\* what preprocess_data raises: any exception of preprocessor.transform is
\* turned into HTTPException(400) (lines 130-132); manual_preprocessing
\* (lines 134-162) cannot fail on a valid ProductData
preprocess_data(pre, o) ==
    IF pre # 0 /\ o.kind = "preprocess_error" THEN "HTTPException" ELSE "none"

TenthShare == <<10000, 0>>

\* mutant: the raw prediction, without the 10% floor
RecommendedPrice_NoFloor(s, prediction) ==
    <<prediction * Limb, 0>>

\* lines 338-340: max(prediction, current_price * 0.1), prediction in cents
RecommendedPrice(s, prediction) ==
    Max2(<<prediction * Limb, 0>>, Mul(TenthShare, s.current_price))

\* mutant: the confidence without its upper clamp of 0.95
Confidence_NoCap(s, prediction) ==
    LET p == s.current_price
        d == IF prediction >= p THEN prediction - p ELSE p - prediction
        n == p - d
    IN  IF 100 * n <= 60 * p THEN 600
        ELSE RoundDiv(1000 * n, p)

\* line 343 and round(confidence, 3), in thousandths
Confidence(s, prediction) ==
    LET p == s.current_price
        d == IF prediction >= p THEN prediction - p ELSE p - prediction
        n == p - d
    IN  IF 100 * n <= 60 * p THEN 600
        ELSE IF 100 * n >= 95 * p THEN 950
        ELSE RoundDiv(1000 * n, p)

ExpiryTags(s) ==
    IF s.days_to_expiry <= 0 THEN <<"expired_clearance">>
    ELSE IF s.days_to_expiry <= 1 THEN <<"critical_expiry">>
    ELSE IF s.days_to_expiry <= 3 THEN <<"expiry_proximity">>
    ELSE IF s.days_to_expiry <= 7 THEN <<"short_shelf_life">>
    ELSE <<>>

StockTags(s) ==
    IF s.stock_level > 200 THEN <<"excess_inventory">>
    ELSE IF s.stock_level > 100 THEN <<"high_stock">>
    ELSE IF s.stock_level < 20 THEN <<"low_stock">>
    ELSE IF s.stock_level < 10 THEN <<"critical_stock">>
    ELSE <<>>

DemandTags(s) ==
    IF s.demand_score < 20 THEN <<"low_demand">>
    ELSE IF s.demand_score > 80 THEN <<"high_demand">>
    ELSE IF s.demand_score > 90 THEN <<"peak_demand">>
    ELSE <<>>

SalesTags(s) ==
    IF s.historical_sales < 10 THEN <<"slow_moving">>
    ELSE IF s.historical_sales > 100 THEN <<"fast_moving">>
    ELSE <<>>

CombinedTags(s) ==
    (IF s.days_to_expiry <= 3 /\ s.stock_level > 100
     THEN <<"urgent_clearance_needed">> ELSE <<>>)
    \o (IF s.stock_level < 20 /\ s.demand_score > 70
        THEN <<"scarcity_premium">> ELSE <<>>)

\* lines 345-386
Factors(s) ==
    ExpiryTags(s) \o StockTags(s) \o DemandTags(s) \o SalesTags(s)
    \o CombinedTags(s)

\* lines 338-394
ModelResponse(s, prediction) ==
    Response(Round2(RecommendedPrice(s, prediction)), Confidence(s, prediction),
             Factors(s), "ml_model")

\* the try block, lines 320-394: the exception it ends with, or its response
TryBody(s, m, pre, o) ==
    IF m = 0 THEN [exc |-> "none", resp |-> RuleBasedResponse(s)]
    ELSE IF preprocess_data(pre, o) # "none"
    THEN [exc |-> preprocess_data(pre, o), resp |-> NoResponse]
    ELSE IF o.kind = "inference_error"
    THEN [exc |-> "Exception", resp |-> NoResponse]
    ELSE [exc |-> "none", resp |-> ModelResponse(s, o.prediction)]

\* mutant: HTTPException is let through ("except HTTPException: raise")
Caught_NotHTTP(exc) == exc = "Exception"

\* line 396, "except Exception": HTTPException is an Exception too
Caught(exc) == exc \in {"Exception", "HTTPException"}

predict_price(s, m, pre, o) ==
    LET r == TryBody(s, m, pre, o)
    IN  IF r.exc = "none" THEN r.resp
        ELSE IF Caught(r.exc) THEN ErrorFallback(s)
        ELSE Raised(r.exc)

\* what model.predict returns, in cents: anything, the model being external
Predictions(s) ==
    {-100, 0, s.current_price \div 20, (4 * s.current_price) \div 5,
     s.current_price, 3 * s.current_price}

\* what the collaborators can do in one call of predict_price
PossibleOutcomes(s, m, pre) ==
    IF m = 0 THEN {NotCalled}
    ELSE {[kind |-> "ok", prediction |-> v] : v \in Predictions(s)}
         \cup {[kind |-> "inference_error", prediction |-> 0]}
         \cup (IF pre # 0 THEN {[kind |-> "preprocess_error", prediction |-> 0]}
               ELSE {})

ServePrices == {1, 1000}

ServeDays == {0, 2, 7, MaxDays}

ServeStocks == {3, 15, 50, 150, 250}

ServeDemands == {10, 50, 85, 95}

ServeCategories == {"dairy", "organic"}

ServeSales == {5, 10, 150}

\* one request to /predict-price
PredictPrice ==
    /\ ppc = "ready"
    /\ Quiescent
    /\ \E o \in PossibleOutcomes(snap, model, preprocessor) :
        /\ outcome' = o
        /\ resp' = predict_price(snap, model, preprocessor, o)
    /\ ppc' = "done"
    /\ UNCHANGED <<snap, globalVars, calcVars, batchVars, readerVars, targetVars>>

LoadStep ==
    /\ \/ LoadModelFile
       \/ LoadPreprocessorFile
       \/ LoadFeatureNames
       \/ LoadRaises
       \/ LoadTrains
    /\ UNCHANGED <<snap, calcVars, predictVars, batchVars, readerVars, targetVars>>

InitPredict ==
    /\ \E p \in ServePrices, d \in ServeDays, s \in ServeStocks,
          q \in ServeDemands, c \in ServeCategories, h \in ServeSales :
            snap = ProductData(p, d, s, q, c, h)
    /\ ppc = "ready" /\ outcome = NotCalled /\ resp = NoResponse
    /\ GlobalsIdle /\ CalcIdle /\ BatchIdle /\ ReaderIdle /\ TargetIdle

NextPredict == (ppc = "ready" /\ LoadStep) \/ PredictPrice

SpecPredict == InitPredict /\ [][NextPredict]_vars

(***************************************************************************)
(* batch_predict (main.py:408-439).                                        *)
(***************************************************************************)
\* lines 419-429
BatchFallback(s) ==
    Response(Round2(calculate_rule_based_price(s)), 400,
             <<"batch_error_fallback">>, "rule_based_fallback")

\* lines 415-429: one pass of the loop body, the element appended
BatchElement(s, m, pre, o) ==
    LET r == predict_price(s, m, pre, o)
    IN  IF r.raised THEN BatchFallback(s) ELSE r

\* mutant: the result is put in front of the list
AppendPrediction_Front(acc, r) == <<r>> \o acc

\* line 418 / line 423: predictions.append(...)
AppendPrediction(acc, r) == Append(acc, r)

\* lines 412-429: the loop over request.products, in order
RECURSIVE BatchLoop(_, _, _, _, _)
BatchLoop(ps, os, m, pre, acc) ==
    IF ps = <<>> THEN acc
    ELSE BatchLoop(Tail(ps), Tail(os), m, pre,
                   AppendPrediction(acc, BatchElement(Head(ps), m, pre, Head(os))))

BatchSnapshots ==
    {ProductData(1000, 0, 50, 50, "dairy", 10),
     ProductData(1, 2, 3, 95, "organic", 150)}

BatchInputs == UNION {[1..n -> BatchSnapshots] : n \in 0..MaxBatch}

\* what the collaborators can do, element by element
OutcomeSeqs(ps, m, pre) ==
    {os \in [1..Len(ps) ->
                UNION {PossibleOutcomes(ps[i], m, pre) : i \in 1..Len(ps)}] :
        \A i \in 1..Len(ps) : os[i] \in PossibleOutcomes(ps[i], m, pre)}

\* one request to /batch-predict; nothing in the outer try block can raise,
\* so the handler at lines 437-439 is never entered
BatchPredict ==
    /\ bpc = "ready"
    /\ Quiescent
    /\ \E os \in OutcomeSeqs(products, model, preprocessor) :
        /\ outcomes' = os
        /\ predictions' = BatchLoop(products, os, model, preprocessor, <<>>)
    /\ total_processed' = Len(predictions')
    /\ bpc' = "done"
    /\ UNCHANGED <<products, snap, globalVars, calcVars, predictVars, readerVars, targetVars>>

InitBatch ==
    /\ products \in BatchInputs
    /\ predictions = <<>> /\ outcomes = <<>> /\ total_processed = 0
    /\ bpc = "ready"
    /\ snap = NoSnapshot
    /\ GlobalsIdle /\ CalcIdle /\ PredictIdle /\ ReaderIdle /\ TargetIdle

NextBatch == (bpc = "ready" /\ LoadStep) \/ BatchPredict

SpecBatch == InitBatch /\ [][NextBatch]_vars

(***************************************************************************)
(* A request served by another thread while load_model runs: get_model_info *)
(* (main.py:441-450) reads the three globals one after the other.          *)
(***************************************************************************)
\* lines 445-446
ReadModel(r) ==
    /\ rpc[r] = "idle"
    /\ seen' = [seen EXCEPT ![r][1] = model]
    /\ rpc' = [rpc EXCEPT ![r] = "model_read"]

\* line 447
ReadPreprocessor(r) ==
    /\ rpc[r] = "model_read"
    /\ seen' = [seen EXCEPT ![r][2] = preprocessor]
    /\ rpc' = [rpc EXCEPT ![r] = "preprocessor_read"]

\* lines 448-449
ReadFeatureNames(r) ==
    /\ rpc[r] = "preprocessor_read"
    /\ seen' = [seen EXCEPT ![r][3] = feature_names]
    /\ rpc' = [rpc EXCEPT ![r] = "done"]

ReadStep ==
    /\ \E r \in Readers :
        \/ ReadModel(r)
        \/ ReadPreprocessor(r)
        \/ ReadFeatureNames(r)
    /\ UNCHANGED <<snap, globalVars, calcVars, predictVars, batchVars, targetVars>>

InitSwap ==
    /\ snap = NoSnapshot
    /\ GlobalsIdle /\ CalcIdle /\ PredictIdle /\ BatchIdle /\ ReaderIdle
    /\ TargetIdle

NextSwap == LoadStep \/ ReadStep

SpecSwap == InitSwap /\ [][NextSwap]_vars

(***************************************************************************)
(* The claims.                                                             *)
(***************************************************************************)

\* C1 (SpecCalc): for every ProductData, calculate_rule_based_price returns
\* at least 0.05 * current_price.
C1_FloorInvariant ==
    cpc = "done" => Le2(Mul(<<5000, 0>>, snap.current_price), calc.price)

\* C1 witness: a call in which the product of price and bounded multiplier
\* is below 5% of the price, so that the final floor decides the result.
C1_FloorActs ==
    /\ cpc = "done"
    /\ ~Le2(Mul(<<5000, 0>>, snap.current_price),
            Mul(calc.multiplier, snap.current_price))

\* C2 (SpecPredict): with a model loaded, when preprocessing or inference
\* raises, predict_price does not raise and answers with the rounded
\* calculator price, confidence 0.5, factors [error_fallback], method
\* rule_based_fallback.
C2_ErrorFallback ==
    (ppc = "done" /\ model # 0
        /\ outcome.kind \in {"preprocess_error", "inference_error"})
    => /\ ~resp.raised
       /\ resp.method = "rule_based_fallback"
       /\ resp.confidence = 500
       /\ resp.factors = <<"error_fallback">>
       /\ resp.recommended_price = Round2(calculate_rule_based_price(snap))

\* C2 witness: a request whose preprocessing raised, answered.
C2_PreprocessErrorAnswered ==
    ppc = "done" /\ model # 0 /\ outcome.kind = "preprocess_error"

C3Snapshot == ProductData(1000, 0, 50, 50, "dairy", 10)

\* C3 (SpecPredict), amended: for current_price 10.00, days_to_expiry 0,
\* stock_level 50, demand_score 0.5, category dairy, historical_sales 10 and
\* no model loaded, predict_price answers method rule_based and price 0.51
\* (10 * 0.05 * 1.00 * 1.08 * 0.92 * 1.02 = 0.506736, above the 0.50 floor).
C3_Scenario ==
    (ppc = "done" /\ model = 0 /\ snap = C3Snapshot)
    => /\ ~resp.raised
       /\ resp.method = "rule_based"
       /\ resp.recommended_price = 51

\* C3 as claimed: the same request is answered with method rule_based and
\* price 0.50.
C3_ScenarioAsClaimed ==
    (ppc = "done" /\ model = 0 /\ snap = C3Snapshot)
    => /\ ~resp.raised
       /\ resp.method = "rule_based"
       /\ resp.recommended_price = 50

\* C3 witness: that request, answered with no model loaded.
C3_ScenarioServed == ppc = "done" /\ model = 0 /\ snap = C3Snapshot

ClaimedSalesFactor(h) ==
    IF h < 5 THEN 85
    ELSE IF h < 20 THEN 92
    ELSE IF h > 200 THEN 115
    ELSE IF h > 100 THEN 110
    ELSE IF h > 50 THEN 105
    ELSE 100

\* C5 (SpecCalc), as claimed: the sales-velocity stage multiplies by 0.85
\* below 5, by 0.92 below 20, by 1.15 above 200, by 1.10 in (100, 200], by
\* 1.05 in (50, 100], and leaves the multiplier alone otherwise.
C5_SalesStageAsClaimed ==
    cpc = "done"
    => calc.stages =
        Mul(Mul(Mul(Mul(Mul(One, ExpiryFactor(snap.days_to_expiry)),
                        DemandFactor(snap.demand_score)),
                    StockFactor(snap.stock_level)),
                ClaimedSalesFactor(snap.historical_sales)),
            CategoryFactor(snap.category))

\* C6 (SpecBatch), as claimed: an element of a batch whose processing
\* failed (its preprocessing raised, the failure predict_price is to
\* surface) gets the rounded calculator price with confidence 0.4, factors
\* [batch_error_fallback], method rule_based_fallback.
C6_FailedElementGetsBatchFallback ==
    bpc = "done"
    => \A i \in 1..Len(products) :
        outcomes[i].kind = "preprocess_error"
        => predictions[i] = BatchFallback(products[i])

\* C7 (SpecBatch): batch_predict returns as many predictions as it was given
\* products, the i-th being the result for the i-th product, and
\* total_processed is that number; an empty batch gives 0, an empty list
\* and no error.
C7_BatchLengthAndOrder ==
    bpc = "done"
    => /\ Len(predictions) = Len(products)
       /\ total_processed = Len(products)
       /\ \A i \in 1..Len(products) :
            predictions[i] =
                BatchElement(products[i], model, preprocessor, outcomes[i])

\* C7 witness: a finished batch of at least two products, the first two
\* different, one of them answered by a fallback.
C7_MixedBatchDone ==
    /\ bpc = "done" /\ Len(products) >= 2 /\ products[1] # products[2]
    /\ outcomes[1].kind = "inference_error" /\ outcomes[2].kind = "ok"

C9_TargetPricePositive ==
    tpc = "done" => (~tres.raised /\ tres.price > 0)

\* C10 (SpecPredict), as claimed: with a model loaded, a preprocessing
\* failure reaches the caller of predict_price as the user-facing error
\* (HTTP 400), not as a pricing response.
C10_PreprocessErrorSurfaced ==
    (ppc = "done" /\ model # 0 /\ outcome.kind = "preprocess_error")
    => (resp.raised /\ resp.status = 400)


\* the tags of a factor list
Tags(f) == {f[i] : i \in 1..Len(f)}

\* C11 (SpecPredict): in the factor list of the model path, stock_level < 10
\* gets both low_stock and critical_stock, and demand_score > 0.9 gets both
\* high_demand and peak_demand.
C11_TagsBothFire ==
    (ppc = "done" /\ resp.method = "ml_model")
    => /\ (snap.stock_level < 10
            => {"low_stock", "critical_stock"} \subseteq Tags(resp.factors))
       /\ (snap.demand_score > 90
            => {"high_demand", "peak_demand"} \subseteq Tags(resp.factors))


\* C12 (SpecPredict): on every path and for every valid Snapshot the
\* recommended_price of the response, rounded to 2 decimal places (whole
\* cents here), is strictly positive.
C12_RoundedPricePositive ==
    (ppc = "done" /\ ~resp.raised) => resp.recommended_price > 0


\* C13 (SpecPredict): when a model is loaded and inference succeeds, the
\* method is ml_model and the price is max(prediction, 0.10 * current_price)
\* rounded to whole cents, whatever the raw prediction (zero and negative
\* ones included): before rounding it is never below 10% of current_price,
\* so the rounded price is at most half a cent below it.
C13_ModelPriceFloored ==
    (ppc = "done" /\ model # 0 /\ outcome.kind = "ok")
    => LET pred == outcome.prediction
           p == snap.current_price
       IN  /\ resp.method = "ml_model"
           /\ ~resp.raised
           /\ resp.recommended_price =
                  IF 10 * pred >= p THEN pred ELSE RoundDiv(p, 10)
           /\ 10 * resp.recommended_price + 5 >= p

\* C13 witness: inference succeeded with a prediction that is not positive
\* and the answer is 10% of current_price.
C13_FloorActsOnPrediction ==
    /\ ppc = "done" /\ model # 0 /\ outcome.kind = "ok"
    /\ outcome.prediction <= 0
    /\ snap.current_price = 1000
    /\ resp.recommended_price = 100


\* C14 (SpecPredict): on the model path the confidence is
\* clamp(1 - |prediction - current_price| / current_price, 0.6, 0.95) of
\* the raw prediction (to 3 decimals), so it lies in [0.6, 0.95]; on every
\* path it is 0.4, 0.5, 0.6 or a value in [0.6, 0.95].
C14_ConfidenceClamped ==
    (ppc = "done" /\ ~resp.raised)
    => /\ resp.confidence \in {400, 500} \cup (600..950)
       /\ resp.method = "ml_model"
           => LET p == snap.current_price
                  pred == outcome.prediction
                  d == IF pred >= p THEN pred - p ELSE p - pred
                  raw == 1000 * (p - d)
                  err == resp.confidence * p - raw
              IN  /\ outcome.kind = "ok"
                  /\ resp.confidence \in 600..950
                  /\ raw <= 600 * p => resp.confidence = 600
                  /\ raw >= 950 * p => resp.confidence = 950
                  /\ (600 * p < raw /\ raw < 950 * p)
                       => (2 * err <= p /\ -2 * err <= p)

\* C14 witness: a model-path answer whose confidence is strictly between
\* the two clamps (a prediction of 80% of current_price gives 0.8).
C14_ConfidenceBetweenClamps ==
    /\ ppc = "done" /\ resp.method = "ml_model"
    /\ 5 * outcome.prediction = 4 * snap.current_price
    /\ resp.confidence = 800


\* C15 (SpecPredict): when no model is loaded, predict_price returns the
\* rounded price of calculate_rule_based_price with confidence exactly 0.6,
\* factors exactly [rule_based_fallback] and method rule_based, and neither
\* preprocessing nor inference is called.
C15_NoModelAnswer ==
    (ppc = "done" /\ model = 0)
    => /\ ~resp.raised
       /\ resp.recommended_price = Round2(calculate_rule_based_price(snap))
       /\ resp.confidence = 600
       /\ resp.factors = <<"rule_based_fallback">>
       /\ resp.method = "rule_based"
       /\ outcome.kind = "not_called"

\* C15 witness: a request answered without a model, for a Snapshot that
\* would get several tags on the model path.
C15_NoModelServed ==
    /\ ppc = "done" /\ model = 0
    /\ snap.stock_level > 200 /\ snap.days_to_expiry = 2
    /\ resp.method = "rule_based"
    /\ resp.recommended_price > 0


\* C16 (SpecCalc): for every ProductData with days_to_expiry > 0 and
\* demand_score > 0.5, calculate_rule_based_price returns at least
\* 0.70 * current_price, whatever stock_level, historical_sales and
\* category are: the 1.35 ceiling applied afterwards never undoes the floor.
C16_SeventyPercentFloor ==
    (cpc = "done" /\ snap.days_to_expiry > 0 /\ snap.demand_score > 50)
    => /\ Le2(<<70000, 0>>, calc.multiplier)
       /\ Le2(Mul(<<70000, 0>>, snap.current_price), calc.price)

\* C16 witness: a call with days_to_expiry > 0, demand_score > 0.5 and
\* stock_level > 5 whose five stages multiply to less than 0.70, so that
\* the floor decides the multiplier and the ceiling runs after it.
C16_SeventyPercentFloorActs ==
    /\ cpc = "done"
    /\ snap.days_to_expiry > 0 /\ snap.demand_score > 50
    /\ snap.stock_level > 5
    /\ ~Le2(<<70000, 0>>, calc.stages)
    /\ calc.multiplier = <<70000, 0>>


\* C17 (SpecCalc): calculate_rule_based_price is monotone non-increasing in
\* stock_level: of two ProductData that differ only in stock_level, the one
\* with the smaller stock_level gets a price at least as high, also across
\* stock_level 5 / 6, where the 1.35 ceiling starts to apply.
C17_MonotoneInStock ==
    cpc = "done"
    => \A s2 \in Stocks :
          s2 < snap.stock_level
          => Le2(calc.price,
                 calculate_rule_based_price([snap EXCEPT !.stock_level = s2]))

\* C17 witness: a call with stock_level 6 whose stages multiply to more than
\* 1.35, so that the ceiling decides its price, and the same ProductData with
\* stock_level 5 is priced strictly higher.
C17_CeilingBoundaryCrossed ==
    /\ cpc = "done" /\ snap.stock_level = 6
    /\ ~Le2(calc.stages, <<135000, 0>>)
    /\ calc.price = Mul(<<135000, 0>>, snap.current_price)
    /\ ~Le2(calculate_rule_based_price([snap EXCEPT !.stock_level = 5]),
            calc.price)

====
